---- MODULE Spec2Model ----
(***************************************************************************)
(* Human-in-the-loop approval workflow of the Telegram agent backend.      *)
(*                                                                         *)
(* The model covers the two entry points that run the approval state       *)
(* machine: the FastAPI webhook (src/routes/telegram.py, which handles     *)
(* the update inline) and the ARQ worker tasks (src/tasks/                 *)
(* telegram_tasks.py), the approval ledger (src/agents/state_manager.py    *)
(* over src/utils/redis_client.py) and the outbound Telegram calls.        *)
(*                                                                         *)
(* A handler is a coroutine: it runs without interruption from one await   *)
(* to the next, and at an await the event loop may run the other handlers  *)
(* in progress. Each action is what one handler does from the return (or   *)
(* the raise) of the call it awaited up to its next await.                 *)
(*                                                                         *)
(* Strings that the code splits on ':' are sequences of their colon        *)
(* separated fields: "approve:hitl:1:2" is <<"approve","hitl","1","2">>.   *)
(*                                                                         *)
(* The agent runtime (Runner.run, RunState) is an external library, not    *)
(* part of the repository. The outcome of Runner.run is drawn              *)
(* nondeterministically at each call site, constrained only by             *)
(* needs_approval=True of fetch_weather. Of RunState.to_string and         *)
(* RunState.from_string the model takes what the handlers rely on: a       *)
(* string that to_string wrote is read back by from_string as a run state  *)
(* with the same interruptions and decisions, and any other string makes   *)
(* from_string raise. The properties below that compare what was saved     *)
(* with what was retrieved compare the strings the repository's code       *)
(* stores and reads, so that they do not rest on the runtime.              *)
(***************************************************************************)
EXTENDS Integers, Sequences, FiniteSets, TLC

VARIABLES
    now,        \* wall clock in milliseconds (time.time() * 1000)
    ledger,     \* the Redis keyspace: key -> [value, expires_at]
    jobs,       \* the handler invocations in progress, one per slot
    sessions,   \* the conversation store: chat -> the items of its session
    delivered,  \* how many inbound updates have been handed to a handler
    lastSaved,  \* history: key -> the state and time of the last successful SET
    written,    \* history: the tool calls of the paused states written to the ledger
    resolved,   \* history: ids from whose entry an ended callback handler resumed the engine
    resumes,    \* history: id -> number of engine runs resumed from its entry
    finals,     \* history: request -> number of times its final output was sent
    executed,   \* history: the fetch_weather calls the engine executed, and why
    client,     \* RedisClient._client of the singleton: "None" or "Redis"
    called      \* the last call that ended on the singleton and how it ended, and
                \* whether a connect() is suspended at its ping()

history == <<lastSaved, written, resolved, resumes, finals, executed>>
lifecycle == <<client, called>>
vars == <<now, ledger, jobs, sessions, delivered, history, lifecycle>>

(***************************************************************************)
(* Program constants and model bounds                                      *)
(***************************************************************************)
APPROVAL_TTL == 3600
max_jobs == 10

MaxDeliveries == 2
MaxInbound == 2
MaxReplay == 3
MaxWebhook == 2
MaxStored == 2
MaxInput == 1
MaxDecision == 2
MaxChats == 2
MaxOverlap == 2
MaxJobs == 3
MaxClock == 2
MaxPending == 2
MaxHalfTtls == 2
MaxMillis == 1

\* The jobs the worker runs at once, up to max_jobs
Slots == 1..(IF MaxJobs < max_jobs THEN MaxJobs ELSE max_jobs)
Chats == {1}
TelegramResults == {"ok", "error"}
MessageTexts == {"", "get weather approval"}
CallbackActions == {"approve", "reject"}
Photos == {<<>>, <<"small", "large">>}
Documents == {"", "report"}
Captions == {"", "what is this"}
FileResults == {"ok", "error"}

(***************************************************************************)
(* Texts sent by the handlers (without their leading emoji)                *)
(***************************************************************************)
TextBot == "I don't respond to other bots. If you're a human, please use a regular account!"
TextSorry == "Sorry, something went wrong. Please try again later."
TextApproved == "Approved"
TextRejected == "Rejected"
TextExpiredToast == "This approval has expired"
TextExpiredMessage == "This approval request has expired. Please try your request again."
TextErrorToast == "Error processing approval"
TextErrorMessage == "Error processing approval: "
TextApprovalPrompt == "Approval Required"
TextNoImage == "Sorry, I couldn't process that image. Please try again or send a different image."
TextNoDocument == "Sorry, I couldn't process that document. Please try again or send a different file."
TextFinalOutput == "final_output"

(***************************************************************************)
(* Run states and engine results                                           *)
(***************************************************************************)
NoState == [req |-> 0, round |-> 0, calls |-> <<>>, decisions |-> <<>>]
NoResult == [kind |-> "none", final_output |-> <<>>, state |-> NoState]

Undecided(n) == [i \in 1..n |-> "none"]

\* A paused run of request req in its round-th pause, waiting on n tool calls.
PausedState(req, round, n) ==
    [req |-> req, round |-> round,
     calls |-> [i \in 1..n |-> <<req, round, i>>],
     decisions |-> Undecided(n)]

\* RunState.approve(interruption) / RunState.reject(interruption)
ApproveFirst(state) == [state EXCEPT !.decisions[1] = "approve"]
RejectFirst(state) == [state EXCEPT !.decisions[1] = "reject"]

\* The calls of a paused state that a resumed run executes: needs_approval=True
\* lets the engine execute fetch_weather only for an approved call.
ApprovedCalls(state) ==
    {state.calls[i] : i \in {x \in 1..Len(state.calls) : state.decisions[x] = "approve"}}

\* The calls still waiting for a decision, in order.
RECURSIVE PendingFrom(_, _)
PendingFrom(state, i) ==
    IF i > Len(state.calls) THEN <<>>
    ELSE (IF state.decisions[i] = "none" THEN <<state.calls[i]>> ELSE <<>>)
         \o PendingFrom(state, i + 1)
PendingCalls(state) == PendingFrom(state, 1)

Completed(req) ==
    [kind |-> "completed", final_output |-> <<TextFinalOutput, ToString(req)>>,
     state |-> NoState]
Interrupted(state) == [kind |-> "interrupted", final_output |-> <<>>, state |-> state]

\* result.interruptions
Interruptions(result) == IF result.kind = "interrupted" THEN result.state.calls ELSE <<>>

\* What one Runner.run call can come to: a final answer, a pause on n tool calls
\* that need approval, or an exception.
\* kept tells whether the engine had written its input to the session before
\* it raised; a run that returns has written its input and what it produced.
\* error tells whether what it raised is a ValueError (pydantic's
\* ValidationError and json.JSONDecodeError are) or another Exception.
EngineOutcomes(counts) ==
    {[kind |-> "completed", n |-> 0, kept |-> TRUE, error |-> "none"]}
        \cup {[kind |-> "raise", n |-> 0, kept |-> k, error |-> e] :
                    k \in BOOLEAN, e \in {"ValueError", "Exception"}}
        \cup {[kind |-> "interrupted", n |-> n, kept |-> TRUE, error |-> "none"] :
                    n \in counts}

\* The items one Runner.run(..., session=session) call adds to the session:
\* first is the item of its input ("user" for a fresh run, "resume_input" for a
\* resumed one), followed by the reply or the tool call it stopped on.
SessionItems(first, kind, kept) ==
    IF kind = "completed" THEN <<first, "assistant">>
    ELSE IF kind = "interrupted" THEN <<first, "tool_call">>
    ELSE IF kind = "raise" /\ kept THEN <<first>>
    ELSE <<>>

\* Runner.run(starting_agent, input=<fresh input>): request req, outcome o.
RunFresh(req, o) ==
    IF o.kind = "interrupted" THEN Interrupted(PausedState(req, 1, o.n))
    ELSE Completed(req)

\* Runner.run(starting_agent, input=<RunState>): the calls left undecided
\* interrupt the run again; otherwise the run goes on to outcome o.
RunResumed(state, o) ==
    IF PendingCalls(state) # <<>>
    THEN Interrupted([req |-> state.req, round |-> state.round,
                      calls |-> PendingCalls(state),
                      decisions |-> Undecided(Len(PendingCalls(state)))])
    ELSE IF o.kind = "interrupted"
         THEN Interrupted(PausedState(state.req, state.round + 1, o.n))
         ELSE Completed(state.req)

(***************************************************************************)
(* Serialisation                                                           *)
(***************************************************************************)
\* RunState.to_string(): the string the runtime writes for a run state. After
\* its tag it lists the request of the run, the number of the pause, the tool
\* calls the run waits on and the decisions taken on them. The agent and the
\* context are not in it: from_string is given the agent, Runner.run the
\* context.
to_string(state) == <<"runstate", state.req, state.round, state.calls, state.decisions>>

\* RunState.from_string(initial_agent, state_string), for a string that
\* to_string wrote: the run state read off its fields.
from_string(str) == [req |-> str[2], round |-> str[3], calls |-> str[4], decisions |-> str[5]]

\* A Python int as JSON writes it, in decimal digits, and read back.
RECURSIVE Digits(_)
Digits(n) == IF n < 10 THEN <<n>> ELSE Append(Digits(n \div 10), n % 10)
RECURSIVE Number(_)
Number(digits) ==
    IF Len(digits) = 1 THEN digits[1]
    ELSE 10 * Number(SubSeq(digits, 1, Len(digits) - 1)) + digits[Len(digits)]

\* The values of the dict state_data: an int or a str
PyInt(n) == [type |-> "int", int |-> n, str |-> <<>>]
PyStr(s) == [type |-> "str", int |-> 0, str |-> s]

\* json.dumps(state_data): the text of a JSON object, each member of the dict
\* written as a number or as a string between quotes.
json_dumps(obj) ==
    [k \in DOMAIN obj |->
        IF obj[k].type = "int" THEN [number |-> Digits(obj[k].int), string |-> <<>>]
        ELSE [number |-> <<>>, string |-> <<obj[k].str>>]]

\* json.loads(data_str), for a text that is a JSON object: the dict of its
\* members.
json_loads(text) ==
    [k \in DOMAIN text |->
        IF text[k].number # <<>> THEN PyInt(Number(text[k].number))
        ELSE PyStr(text[k].string[1])]

(***************************************************************************)
(* Redis client (src/utils/redis_client.py)                                *)
(***************************************************************************)
Live(store, key, t) == key \in DOMAIN store /\ t < store[key].expires_at

\* RedisClient.get: the value, or None (here <<>>) when absent, expired or on error.
RedisGet(store, key, t, r) ==
    IF r = "ok" /\ Live(store, key, t) THEN <<store[key].value>> ELSE <<>>

\* RedisClient.set(key, value, ex): the keyspace after the call.
RedisSet(store, key, value, ex, t, r) ==
    IF r = "ok"
    THEN [k \in DOMAIN store \cup {key} |->
            IF k = key THEN [value |-> value, expires_at |-> t + ex * 1000]
            ELSE store[k]]
    ELSE store

\* RedisClient.delete(key): the keyspace after the call.
RedisDelete(store, key, r) ==
    IF r = "ok" THEN [k \in DOMAIN store \ {key} |-> store[k]] ELSE store

\* RedisDeleted, reporting a removal whatever happened
RedisDeletedAlways(store, key, t, r) == TRUE

\* RedisClient.delete(key): what the call returns, result > 0 or False on error.
RedisDeleted(store, key, t, r) == r = "ok" /\ Live(store, key, t)

\* Keys whose TTL has run out are forgotten by the store.
Purge(store, t) == [k \in {x \in DOMAIN store : t < store[x].expires_at} |-> store[k]]

RedisResults == {"ok", "error"}

\* RedisClient.is_connected
IsConnected == client # "None"

\* No call has been made on the client yet. opened tells whether a connect()
\* has returned and no disconnect() has been called since, was_open what
\* opened was when the call that ended last was made, made_open what opened
\* was when the connect() that is suspended at ping() was made, pending the
\* calls that are suspended at the await of their Redis command.
NoCall == [op |-> "none", raised |-> "none", result |-> <<>>, opened |-> FALSE,
           connecting |-> FALSE, made_open |-> FALSE, was_open |-> FALSE,
           pending |-> <<>>]

\* on_startup has returned: connect(REDIS_URL) gave the client and ping() answered.
Connected == [op |-> "connect", raised |-> "none", result |-> <<"None">>, opened |-> TRUE,
              connecting |-> FALSE, made_open |-> FALSE, was_open |-> FALSE,
           pending |-> <<>>]

(***************************************************************************)
(* Approval ledger (src/agents/state_manager.py)                           *)
(***************************************************************************)
\* approval_id = f"hitl:{chat_id}:{timestamp}"
ApprovalId(chat_id, timestamp) == <<"hitl", ToString(chat_id), ToString(timestamp)>>

\* state_data of save_pending_approval, serialised
StateData(chat_id, state, timestamp) ==
    json_dumps([state |-> PyStr(to_string(state)), chat_id |-> PyInt(chat_id),
                timestamp |-> PyInt(timestamp)])

\* SavePendingApproval, giving the entry a day to live
SavePendingApprovalForADay(store, chat_id, state, timestamp, t, r) ==
    [ok |-> r = "ok",
     approval_id |-> ApprovalId(chat_id, timestamp),
     store |-> RedisSet(store, ApprovalId(chat_id, timestamp),
                        StateData(chat_id, state, timestamp), 24 * APPROVAL_TTL, t, r)]

\* save_pending_approval: [ok, approval_id, store]; ok = FALSE is the raised Exception.
\* timestamp is the clock the call read when it was made, t the clock at which
\* the SET it awaited reached the store.
SavePendingApproval(store, chat_id, state, timestamp, t, r) ==
    [ok |-> r = "ok",
     approval_id |-> ApprovalId(chat_id, timestamp),
     store |-> RedisSet(store, ApprovalId(chat_id, timestamp),
                        StateData(chat_id, state, timestamp), APPROVAL_TTL, t, r)]

\* Stored content that save_pending_approval did not write: text that is not
\* JSON, JSON without the state field, JSON whose state is no run state.
NotJson == [garbage |-> [number |-> <<>>, string |-> <<>>]]
JsonWithoutState == json_dumps([chat_id |-> PyInt(1), timestamp |-> PyInt(0)])
JsonWithBadState ==
    json_dumps([state |-> PyStr(<<"garbage", 0, 0, <<>>, <<>>>>), chat_id |-> PyInt(1),
                timestamp |-> PyInt(0)])
CorruptValues == {NotJson, JsonWithoutState, JsonWithBadState}

\* get_pending_approval: [found, state, error]. error is what the call raises:
\* "ValueError" for a missing value and for json.JSONDecodeError (json.loads
\* of a text that is no JSON object, here one with a member that is neither a
\* number nor a string), "KeyError"
\* for data["state"] without the field (re-raised as it is), "from_string" for
\* whatever RunState.from_string raises on a string it cannot deserialise.
GetPendingApproval(store, approval_id, t, r) ==
    LET data_str == RedisGet(store, approval_id, t, r)
        failed(e) == [found |-> FALSE, state |-> NoState, error |-> e]
        is_json == \A k \in DOMAIN data_str[1] :
                        (data_str[1][k].number = <<>>) # (data_str[1][k].string = <<>>)
    IN  IF data_str = <<>> THEN failed("ValueError")
        ELSE IF ~is_json THEN failed("ValueError")
        ELSE IF "state" \notin DOMAIN json_loads(data_str[1]) THEN failed("KeyError")
        ELSE IF Head(json_loads(data_str[1]).state.str) # "runstate"
        THEN failed("from_string")
        ELSE [found |-> TRUE, state |-> from_string(json_loads(data_str[1]).state.str),
              error |-> "none"]

\* What RunState.from_string can raise, as the handlers see it: an exception
\* that get_pending_approval turns into or passes on as a ValueError
\* (json.JSONDecodeError is one), or any other exception.
FromStringErrors == {"ValueError", "Exception"}

\* delete_pending_approval: the keyspace after the call (errors are swallowed).
DeletePendingApproval(store, approval_id, r) == RedisDelete(store, approval_id, r)

\* delete_pending_approval: what the call returns.
DeletedPendingApproval(store, approval_id, t, r) == RedisDeleted(store, approval_id, t, r)

(***************************************************************************)
(* Outbound calls and the except clauses                                   *)
(***************************************************************************)
\* One call to the Telegram API (sendMessage, answerCallbackQuery) or to the
\* session (pop_item): ref is the approval id or the final output it carries,
\* about the tool call an approval prompt describes.
Call(api, text, ref, about) == [api |-> api, text |-> text, ref |-> ref, about |-> about]
SendMessage(text) == Call("sendMessage", text, <<>>, <<>>)
AnswerCallbackQuery(text) == Call("answerCallbackQuery", text, <<>>, <<>>)
PopItem == Call("pop_item", "", <<>>, <<>>)

\* build_approval_keyboard: the callback_data of the Approve and Reject buttons
BuildApprovalKeyboard(approval_id) ==
    <<<<"approve">> \o approval_id, <<"reject">> \o approval_id>>

\* send_approval_request(chat_id, tool_name, arguments, approval_id): ref is
\* the reply_markup.
SendApprovalRequest(interruption, approval_id) ==
    Call("sendMessage", TextApprovalPrompt, BuildApprovalKeyboard(approval_id), interruption)


(***************************************************************************)
(* Agent input (src/utils/telegram.py)                                     *)
(***************************************************************************)
\* An optional value is a sequence of at most one element (None is <<>>).
\* extract_photo_from_update: the largest size, the last of the list
ExtractPhoto(u) ==
    IF u.photo # <<>>
    THEN <<[file_id |-> u.photo[Len(u.photo)], caption |-> u.caption]>>
    ELSE <<>>

\* extract_document_from_update
ExtractDocument(u) ==
    IF u.document # "" THEN <<[file_id |-> u.document, caption |-> u.caption]>> ELSE <<>>

\* get_telegram_file_url, when the getFile request succeeds
FileUrl(file_id) == <<"https://api.telegram.org/file", file_id>>

InputText(text) == [type |-> "input_text", text |-> text, url |-> <<>>]
InputImage(url) == [type |-> "input_image", text |-> "", url |-> url]
InputFile(url) == [type |-> "input_file", text |-> "", url |-> url]

\* BuildMultimodalInput, leaving the caption out
BuildMultimodalInputWithoutText(text, file_url, file_type) ==
    [type |-> "items", text |-> "",
     items |-> <<[role |-> "user",
                  content |-> <<IF file_type = "image" THEN InputImage(file_url)
                                ELSE InputFile(file_url)>>]>>]

\* build_multimodal_input(text, file_url, file_type): a list of one user item
BuildMultimodalInput(text, file_url, file_type) ==
    [type |-> "items", text |-> "",
     items |-> <<[role |-> "user",
                  content |-> (IF text # "" THEN <<InputText(text)>> ELSE <<>>)
                              \o <<IF file_type = "image" THEN InputImage(file_url)
                                    ELSE InputFile(file_url)>>]>>]

\* agent_input is None, a string or a list of items.
NoInput == [type |-> "none", text |-> "", items |-> <<>>]
TextInput(text) == [type |-> "string", text |-> text, items |-> <<>>]

\* The agent_input of the message handlers, when the file URL is obtained:
\* photo first, then document, then the text of the message.
AgentInput(u) ==
    IF ExtractPhoto(u) # <<>>
    THEN BuildMultimodalInput(ExtractPhoto(u)[1].caption,
                              FileUrl(ExtractPhoto(u)[1].file_id), "image")
    ELSE IF ExtractDocument(u) # <<>>
    THEN BuildMultimodalInput(ExtractDocument(u)[1].caption,
                              FileUrl(ExtractDocument(u)[1].file_id), "file")
    ELSE TextInput(u.text)

\* `agent_input is None` in place of `not agent_input`
FalsyOnlyNone(input) == input.type = "none"

\* `not agent_input`
Falsy(input) ==
    \/ input.type = "none"
    \/ input.type = "string" /\ input.text = ""
    \/ input.type = "items" /\ input.items = <<>>

\* The update carries a file whose URL the handler asks Telegram for.
HasFile(u) == ExtractPhoto(u) # <<>> \/ ExtractDocument(u) # <<>>
NoFileText(u) == IF ExtractPhoto(u) # <<>> THEN TextNoImage ELSE TextNoDocument

(***************************************************************************)
(* Handler invocations                                                     *)
(***************************************************************************)
\* pc is the await the handler is suspended at; todo holds the Telegram
\* request in flight, or in an except clause the calls still to be made;
\* timestamp is the clock save_pending_approval read before its SET, sets the
\* number of calls of redis_client.set the handler has made; expected holds
\* the states that the saves which returned the id looked up were given,
\* since the store last had no entry under it.
IdleJob ==
    [pc |-> "idle", n |-> 0, entry |-> "none", kind |-> "none", chat |-> 0, is_bot |-> FALSE,
     text |-> "", data |-> <<>>, session |-> FALSE,
     action |-> "", approval_id |-> <<>>, looked |-> FALSE, found |-> FALSE,
     lookup_at |-> 0, data_str |-> <<>>,
     expected |-> {}, retrieved |-> NoState, state |-> NoState,
     result |-> NoResult, timestamp |-> 0, sets |-> 0, saved_id |-> <<>>,
     decided |-> FALSE, req |-> 0, replay |-> FALSE,
     todo |-> <<>>, out |-> <<>>, pops |-> 0, popped |-> <<>>, runs |-> 0, io_error |-> FALSE,
     branch |-> "none", end |-> "none", deleted |-> "none", token |-> "none",
     photo |-> <<>>, document |-> "", caption |-> "", agent_input |-> NoInput,
     appended |-> <<>>, file_url |-> "none"]

MessageKinds == {"message", "edited_message"}

\* The handler ends: by returning ("returned"), by the exception that escaped
\* it ("raised"), or by the cancellation of its task ("cancelled").
EndJob(job, branch, end) ==
    [job EXCEPT !.pc = "done", !.branch = branch, !.end = end, !.todo = <<>>]

\* except ValueError of the callback handlers
ExpiredCalls ==
    <<AnswerCallbackQuery(TextExpiredToast), SendMessage(TextExpiredMessage),
      PopItem, PopItem>>
ExceptValueError(job) ==
    [job EXCEPT !.pc = "except", !.branch = "expired", !.todo = ExpiredCalls]

\* except Exception of the callback handlers and of the message handlers
ErrorCalls(kind, e) ==
    IF kind = "callback_query"
    THEN <<AnswerCallbackQuery(TextErrorToast),
           Call("sendMessage", TextErrorMessage, <<e>>, <<>>), PopItem, PopItem>>
    ELSE <<SendMessage(TextSorry), PopItem>>
ExceptException(job, e) ==
    [job EXCEPT !.pc = "except", !.branch = "error", !.todo = ErrorCalls(job.kind, e)]

\* redis_client of the process the handler runs in: the worker starts its
\* tasks only after on_startup connected it, the API serves requests whether
\* or not the connect of its lifespan succeeded.
HasClient(job) == job.entry = "task" \/ IsConnected

\* A lookup is made for the id of the callback: the states saved under the id
\* that the store still holds are the ones the lookup is expected to return.
Looking(job, id) ==
    [job EXCEPT !.looked = TRUE, !.lookup_at = now,
                !.expected = IF id \in DOMAIN lastSaved /\ Live(ledger, id, now)
                             THEN lastSaved[id].states ELSE {}]

(***************************************************************************)
(* Inbound updates                                                         *)
(***************************************************************************)
\* X-Telegram-Bot-Api-Secret-Token: the configured secret, another value, or
\* no header at all.
TELEGRAM_X_SECRET_KEY == "secret"
NoToken == "none"

\* A request to a handler: an update given to a worker task, or a POST to the
\* webhook with its header.
Requests(entries, tokens) ==
    {[entry |-> e, token |-> NoToken] : e \in entries \cap {"task"}}
        \cup {[entry |-> e, token |-> t] : e \in entries \cap {"webhook"}, t \in tokens}

\* SecretOk, letting a request without the header through
SecretOkOrMissing(token) == token = TELEGRAM_X_SECRET_KEY \/ token = NoToken

\* receive_webhook: x_telegram_bot_api_secret_token == TELEGRAM_X_SECRET_KEY
SecretOk(token) == token = TELEGRAM_X_SECRET_KEY

\* The worker tasks take no token; the webhook raises HTTPException(403)
\* before it reads the payload.
Refused(via) == via.entry = "webhook" /\ ~SecretOk(via.token)
Forbidden(via) ==
    [IdleJob EXCEPT !.pc = "done", !.entry = via.entry, !.token = via.token,
                    !.branch = "forbidden", !.end = "http_403"]

MessageUpdates ==
    [kind : MessageKinds, chat : Chats, is_bot : BOOLEAN, text : MessageTexts,
     data : {<<>>}, photo : Photos, document : Documents, caption : Captions]

\* The messages of `kinds` that carry no photo and no document
PlainUpdates(kinds) ==
    {u \in MessageUpdates : /\ u.kind \in kinds /\ u.photo = <<>>
                            /\ u.document = "" /\ u.caption = ""}

\* An id no save of this process returns (the clock starts after 0)
UnknownId == ApprovalId(1, 0)

\* callback_data of the two buttons of a prompt, for the ids handed out so
\* far, and a payload without a colon
CallbackDatas ==
    {BuildApprovalKeyboard(id)[b] : b \in 1..2, id \in DOMAIN lastSaved \cup {UnknownId}}
        \cup {<<"garbage">>}

\* callback_data with an action that is neither of the two buttons' actions
UnknownActionDatas == {<<"maybe">> \o id : id \in DOMAIN lastSaved \cup {UnknownId}}

\* The callback queries that carry one of `datas`, pressed in one of `chats`
CallbackUpdatesOf(chats, datas) ==
    [kind : {"callback_query"}, chat : chats, is_bot : BOOLEAN, text : {""},
     data : datas, photo : {<<>>}, document : {""}, caption : {""}]

CallbackUpdates == CallbackUpdatesOf(Chats, CallbackDatas)

\* No ended invocation is waiting to be taken off its slot.
Quiet == \A j \in Slots : jobs[j].pc # "done"

\* NextSlot, taking an update only when no other handler is in progress
NextSlotSerial(j, limit) ==
    /\ delivered < limit
    /\ \A i \in Slots : jobs[i].pc = "idle"
    /\ j = 1

\* The next update is handled in the lowest free slot.
NextSlot(j, limit) ==
    /\ Quiet
    /\ delivered < limit
    /\ jobs[j].pc = "idle"
    /\ \A i \in Slots : i < j => jobs[i].pc # "idle"

\* The n-th update reaches its handler.
Arrive(via, u, n) ==
    [IdleJob EXCEPT !.n = n, !.entry = via.entry, !.token = via.token,
                    !.kind = u.kind, !.chat = u.chat,
                    !.req = IF u.kind \in MessageKinds THEN n ELSE 0,
                    !.is_bot = u.is_bot, !.text = u.text, !.data = u.data,
                    !.photo = u.photo, !.document = u.document, !.caption = u.caption,
                    !.session = (via.entry = "task")]

Inc(f, k) ==
    [x \in DOMAIN f \cup {k} |->
        IF x = k THEN (IF k \in DOMAIN f THEN f[k] ELSE 0) + 1 ELSE f[x]]

(***************************************************************************)
(* The conversation store: SQLAlchemySession, one item list per session_id *)
(***************************************************************************)
\* SQLAlchemySession(session_id=f"conv_telegram_{chat_id}")
SessionId(chat_id) == <<"conv_telegram", ToString(chat_id)>>

\* An item of a session: what it is and the update whose handler's run added it.
Item(what, n) == [item |-> what, by |-> n]

\* session.pop_item(): the most recent item is removed and returned, None
\* (here <<>>) when the session is empty
PopItemOf(items) ==
    IF items = <<>> THEN [item |-> <<>>, rest |-> <<>>]
    ELSE [item |-> <<items[Len(items)]>>, rest |-> SubSeq(items, 1, Len(items) - 1)]

(***************************************************************************)
(* Callback data                                                           *)
(***************************************************************************)
\* SplitFirst, splitting on every colon and keeping the first two fields
SplitEvery(data) == <<Head(data), <<Head(Tail(data))>>>>

\* callback_data.split(":", 1)
SplitFirst(data) == <<Head(data), Tail(data)>>

\* Decide, approving whatever the action is
DecideAlwaysApprove(action, state) == ApproveFirst(state)

\* Decide, rejecting only when the action is 'reject'
DecideUnlessReject(action, state) ==
    IF action = "reject" THEN RejectFirst(state) ELSE ApproveFirst(state)

\* Decide, applying the decision to the last interruption of the state
DecideLast(action, state) ==
    [state EXCEPT !.decisions[Len(state.calls)] =
                        IF action = "approve" THEN "approve" ELSE "reject"]

\* The decision of the callback on the first interruption of the retrieved state
Decide(action, state) ==
    IF action = "approve" THEN ApproveFirst(state) ELSE RejectFirst(state)

DecisionToast(action) == IF action = "approve" THEN TextApproved ELSE TextRejected

(***************************************************************************)
(* The handlers, one step per await                                        *)
(*   receive_webhook / handle_callback_query (src/routes/telegram.py)      *)
(*   process_message_task / process_callback_query_task                    *)
(*   (src/tasks/telegram_tasks.py)                                         *)
(***************************************************************************)
\* What a handler does with its update up to its first await; with
\* `if not agent_input: return` the handler of a message without input ends.
\* In a process without its Redis client redis_client.get raises RuntimeError
\* before it awaits anything, and get_pending_approval raises it again.
Dispatch(job) ==
    IF job.kind = "callback_query"
    THEN IF Len(job.data) < 2 THEN ExceptValueError(job)
         ELSE LET parsed == [job EXCEPT !.action = SplitFirst(job.data)[1],
                                        !.approval_id = SplitFirst(job.data)[2],
                                        !.replay = (SplitFirst(job.data)[2] \in resolved)]
              IN  IF HasClient(job) THEN [parsed EXCEPT !.pc = "lookup"]
                  ELSE ExceptException(Looking(parsed, parsed.approval_id),
                                       "Redis client not connected. Call connect() first.")
    ELSE IF job.entry = "webhook" /\ job.is_bot
    THEN [job EXCEPT !.pc = "bot", !.todo = <<SendMessage(TextBot)>>]
    ELSE IF HasFile(job) THEN [job EXCEPT !.pc = "file", !.session = TRUE]
    ELSE IF Falsy(TextInput(job.text))
    THEN EndJob([job EXCEPT !.session = TRUE], "no_input", "returned")
    ELSE [job EXCEPT !.pc = "running", !.runs = 1, !.session = TRUE,
                     !.agent_input = TextInput(job.text)]

\* An update reaches a handler, which runs to its first await: the worker
\* task to the await its update leads to, the webhook to `await request.json()`.
Start(j, limit, via, u) ==
    /\ NextSlot(j, limit)
    /\ delivered' = delivered + 1
    /\ jobs' = [jobs EXCEPT ![j] =
                IF Refused(via) THEN Forbidden(via)
                ELSE IF via.entry = "webhook"
                THEN [Arrive(via, u, delivered + 1) EXCEPT !.pc = "json"]
                ELSE Dispatch(Arrive(via, u, delivered + 1))]
    /\ UNCHANGED <<now, ledger, sessions, history, lifecycle>>

\* update = await request.json()
RequestJson(j) ==
    /\ Quiet
    /\ jobs[j].pc = "json"
    /\ jobs' = [jobs EXCEPT ![j] = Dispatch(jobs[j])]
    /\ UNCHANGED <<now, ledger, sessions, delivered, history, lifecycle>>

\* file_url = await get_telegram_file_url(file_id), inside the inner try
GetFileUrl(j, fu) ==
    /\ Quiet
    /\ jobs[j].pc = "file"
    /\ LET job == [jobs[j] EXCEPT !.file_url = fu]
       IN  jobs' = [jobs EXCEPT ![j] =
                IF fu = "error"
                THEN [job EXCEPT !.pc = "apology", !.todo = <<SendMessage(NoFileText(job))>>]
                ELSE IF Falsy(AgentInput(job)) THEN EndJob(job, "no_input", "returned")
                ELSE [job EXCEPT !.pc = "running", !.runs = 1,
                                 !.agent_input = AgentInput(job)]]
    /\ UNCHANGED <<now, ledger, sessions, delivered, history, lifecycle>>

\* save_pending_approval is called: it reads the clock for the id and calls
\* redis_client.set, which awaits the SET, or, in a process without its Redis
\* client, raises RuntimeError at once, which save_pending_approval raises
\* again as Exception.
CallSave(job, result) ==
    LET called_set == [job EXCEPT !.result = result, !.timestamp = now, !.sets = @ + 1]
    IN  IF HasClient(job) THEN [called_set EXCEPT !.pc = "save"]
        ELSE ExceptException(called_set,
                "Failed to save state to Redis: Redis client not connected. Call connect() first.")

\* AfterRun, returning after a completed run without sending its output
AfterRunSilent(job, result) ==
    IF Interruptions(result) # <<>> THEN CallSave(job, result)
    ELSE EndJob([job EXCEPT !.result = result], "completed", "returned")

\* `if result.interruptions:` the handler calls save_pending_approval; else it
\* goes on to send result.final_output.
AfterRun(job, result) ==
    IF Interruptions(result) # <<>> THEN CallSave(job, result)
    ELSE [job EXCEPT !.pc = "final", !.result = result,
                     !.todo = <<Call("sendMessage", TextFinalOutput,
                                     result.final_output, <<>>)>>]

\* result = await Runner.run(..., session=session): the run returns or raises,
\* having written its items to the session of the chat.
RunnerRun(j, o) ==
    /\ Quiet
    /\ jobs[j].pc = "running"
    /\ LET job == jobs[j]
           fresh == job.kind \in MessageKinds
           result == IF fresh THEN RunFresh(job.req, o) ELSE RunResumed(job.state, o)
           items == SessionItems(IF fresh THEN "user" ELSE "resume_input",
                                 IF o.kind = "raise" THEN "raise" ELSE result.kind, o.kept)
           ran == [job EXCEPT !.appended = items]
           sid == SessionId(job.chat)
       IN  /\ jobs' = [jobs EXCEPT ![j] =
                        IF o.kind = "raise"
                        THEN IF ~fresh /\ o.error = "ValueError"
                             THEN ExceptValueError(ran)
                             ELSE ExceptException(ran, "engine failure")
                        ELSE AfterRun(ran, result)]
           /\ sessions' = [sessions EXCEPT ![sid] =
                            @ \o [i \in 1..Len(items) |-> Item(items[i], job.n)]]
           /\ resumes' = IF fresh THEN resumes ELSE Inc(resumes, job.approval_id)
           /\ executed' = IF fresh THEN executed
                          ELSE executed \cup
                                {[call |-> c, action |-> job.action, found |-> job.found,
                                  approval_id |-> job.approval_id,
                                  first |-> job.retrieved.calls[1]] :
                                    c \in ApprovedCalls(job.state)}
    /\ UNCHANGED <<now, ledger, delivered, lastSaved, written, resolved, finals, lifecycle>>

\* AfterSave, calling redis_client.set again when the write failed
AfterSaveRetrying(job, s) ==
    IF s.ok
    THEN [job EXCEPT !.pc = "prompt", !.saved_id = s.approval_id,
                     !.todo = <<SendApprovalRequest(Interruptions(job.result)[1],
                                                    s.approval_id)>>]
    ELSE [job EXCEPT !.sets = @ + 1]

\* save_pending_approval returns the id, and the handler goes on to send the
\* approval prompt for it; or it raises Exception, which takes the handler to
\* except Exception.
AfterSave(job, s) ==
    IF s.ok
    THEN [job EXCEPT !.pc = "prompt", !.saved_id = s.approval_id,
                     !.todo = <<SendApprovalRequest(Interruptions(job.result)[1],
                                                    s.approval_id)>>]
    ELSE ExceptException(job, "Failed to save state to Redis: Failed to save state to Redis")

\* approval_id = await save_pending_approval(chat_id, result.to_state()):
\* the SET of the call returns or fails.
SaveApproval(j, r) ==
    /\ Quiet
    /\ jobs[j].pc = "save"
    /\ LET job == jobs[j]
           s == SavePendingApproval(ledger, job.chat, job.result.state, job.timestamp,
                                    now, r)
           held == s.approval_id \in DOMAIN lastSaved /\ Live(ledger, s.approval_id, now)
       IN  /\ jobs' = [jobs EXCEPT ![j] = AfterSave(job, s)]
           /\ ledger' = s.store
           /\ lastSaved' =
                IF s.ok
                THEN [k \in DOMAIN lastSaved \cup {s.approval_id} |->
                        IF k = s.approval_id
                        THEN [state |-> job.result.state, at |-> now,
                              states |-> (IF held THEN lastSaved[k].states ELSE {})
                                            \cup {job.result.state}]
                        ELSE lastSaved[k]]
                ELSE lastSaved
           /\ written' = IF s.ok
                         THEN written \cup {job.result.state.calls[i] :
                                               i \in 1..Len(job.result.state.calls)}
                         ELSE written
    /\ UNCHANGED <<now, sessions, delivered, resolved, resumes, finals, executed, lifecycle>>

\* One of the handler's Telegram requests outside the except clauses returns
\* or raises: the reply to a bot, the apology for a file, the acknowledgement
\* of a decision, the approval prompt, the final answer. After the prompt or
\* the final answer a callback handler calls delete_pending_approval, which
\* awaits the DELETE, or, in a process without its Redis client, returns
\* False at once.
TelegramRequest(j, f) ==
    /\ Quiet
    /\ jobs[j].pc \in {"bot", "apology", "ack", "prompt", "final"}
    /\ LET job == jobs[j]
           sent == [job EXCEPT !.out = Append(@, Head(job.todo)), !.todo = <<>>]
           callback == job.kind = "callback_query"
       IN  /\ jobs' = [jobs EXCEPT ![j] =
                IF f = "error" THEN ExceptException([job EXCEPT !.io_error = TRUE], "HTTPStatusError")
                ELSE IF job.pc = "bot" THEN EndJob(sent, "bot", "returned")
                ELSE IF job.pc = "apology" THEN EndJob(sent, "no_file", "returned")
                ELSE IF job.pc = "ack" THEN [sent EXCEPT !.pc = "running", !.runs = @ + 1]
                ELSE IF callback /\ HasClient(job)
                THEN [sent EXCEPT !.pc = "delete",
                                  !.branch = IF job.pc = "prompt" THEN "awaiting"
                                             ELSE "completed"]
                ELSE EndJob([sent EXCEPT !.deleted = IF callback THEN "False" ELSE @],
                            IF job.pc = "prompt" THEN "awaiting" ELSE "completed",
                            "returned")]
           /\ finals' = IF f = "ok" /\ job.pc = "final" THEN Inc(finals, job.req) ELSE finals
    /\ UNCHANGED <<now, ledger, sessions, delivered, lastSaved, written, resolved, resumes,
                   executed, lifecycle>>

\* state = await get_pending_approval(approval_id), up to its second await:
\* redis_client.get, json.loads and data["state"].
GetApproval(j, r) ==
    /\ Quiet
    /\ jobs[j].pc = "lookup"
    /\ LET id == jobs[j].approval_id
           job == Looking(jobs[j], id)
           g == GetPendingApproval(ledger, id, now, r)
       IN  jobs' = [jobs EXCEPT ![j] =
                IF g.error = "ValueError" THEN ExceptValueError(job)
                ELSE IF g.error = "KeyError" THEN ExceptException(job, "'state'")
                ELSE [job EXCEPT !.pc = "restore",
                                 !.data_str = RedisGet(ledger, id, now, r)]]
    /\ UNCHANGED <<now, ledger, sessions, delivered, history, lifecycle>>

\* await RunState.from_string(...) inside get_pending_approval, then the
\* handler up to its next await: the decision on interruptions[0] and
\* answer_callback_query.
FromString(j, x) ==
    /\ Quiet
    /\ jobs[j].pc = "restore"
    /\ LET job == jobs[j]
           str == json_loads(job.data_str[1]).state.str
           got == [job EXCEPT !.found = TRUE, !.state = from_string(str),
                              !.retrieved = from_string(str),
                              !.req = from_string(str).req, !.session = TRUE]
           decided == [got EXCEPT !.state = Decide(job.action, got.state),
                                  !.decided = TRUE]
       IN  jobs' = [jobs EXCEPT ![j] =
                IF Head(str) # "runstate"
                THEN IF x = "ValueError" THEN ExceptValueError(job)
                     ELSE ExceptException(job, "from_string failure")
                ELSE IF got.state.calls = <<>> THEN ExceptException(got, "list index out of range")
                ELSE [decided EXCEPT !.pc = "ack",
                                     !.todo = <<AnswerCallbackQuery(
                                                    DecisionToast(job.action))>>]]
    /\ UNCHANGED <<now, ledger, sessions, delivered, history, lifecycle>>

\* await delete_pending_approval(approval_id), then the handler returns.
DeleteApproval(j, r) ==
    /\ Quiet
    /\ jobs[j].pc = "delete"
    /\ LET job == jobs[j]
       IN  /\ ledger' = DeletePendingApproval(ledger, job.approval_id, r)
           /\ jobs' = [jobs EXCEPT ![j] =
                        [EndJob(job, job.branch, "returned") EXCEPT !.deleted =
                            IF DeletedPendingApproval(ledger, job.approval_id, now, r)
                            THEN "True" ELSE "False"]]
    /\ UNCHANGED <<now, sessions, delivered, history, lifecycle>>

\* The next await of an except clause returns or raises: answer_callback_query
\* or send_message returns, or raises and the exception leaves the handler;
\* session.pop_item() has removed the latest item of the chat's session. The
\* handler goes on to the next call of the clause: when that is
\* session.pop_item() and the handler never assigned `session`, it ends there
\* with UnboundLocalError.
ExceptClause(j, f) ==
    /\ Quiet
    /\ jobs[j].pc = "except"
    /\ LET job == jobs[j]
           c == Head(job.todo)
           sid == SessionId(job.chat)
           next(jb) == IF Tail(job.todo) = <<>> THEN EndJob(jb, jb.branch, "returned")
                       ELSE IF Head(Tail(job.todo)).api = "pop_item" /\ ~jb.session
                       THEN EndJob(jb, jb.branch, "raised")
                       ELSE [jb EXCEPT !.todo = Tail(job.todo)]
       IN  IF c.api = "pop_item"
           THEN /\ jobs' = [jobs EXCEPT ![j] =
                             next([job EXCEPT !.pops = @ + 1,
                                              !.popped = Append(@, PopItemOf(sessions[sid]).item)])]
                /\ sessions' = [sessions EXCEPT ![sid] = PopItemOf(@).rest]
           ELSE /\ jobs' = [jobs EXCEPT ![j] =
                             IF f = "ok" THEN next([job EXCEPT !.out = Append(@, c)])
                             ELSE EndJob([job EXCEPT !.io_error = TRUE], job.branch, "raised")]
                /\ sessions' = sessions
    /\ UNCHANGED <<now, ledger, delivered, history, lifecycle>>

\* job_timeout: the worker cancels a task at the await it is suspended at;
\* CancelledError is no Exception and leaves the handler.
Cancel(j) ==
    /\ Quiet
    /\ jobs[j].entry = "task"
    /\ jobs[j].pc \notin {"idle", "done"}
    /\ jobs' = [jobs EXCEPT ![j] = EndJob(jobs[j], jobs[j].branch, "cancelled")]
    /\ UNCHANGED <<now, ledger, sessions, delivered, history, lifecycle>>

\* The invocation is over and its slot is free for the next update.
Return(j) ==
    /\ jobs[j].pc = "done"
    /\ jobs' = [jobs EXCEPT ![j] = IdleJob]
    /\ resolved' = IF jobs[j].kind = "callback_query" /\ jobs[j].runs > 0
                   THEN resolved \cup {jobs[j].approval_id} ELSE resolved
    /\ UNCHANGED <<now, ledger, sessions, delivered, lastSaved, written, resumes, finals,
                   executed, lifecycle>>

(***************************************************************************)
(* Time                                                                    *)
(***************************************************************************)
\* What goes by between two steps of the handlers: a millisecond, half the
\* lifetime of an entry, its whole lifetime.
Durations == {1, APPROVAL_TTL * 500, APPROVAL_TTL * 1000}

\* d milliseconds go by on time.time(); the store forgets each key whose own
\* lifetime has run out.
Tick(d) ==
    /\ Quiet
    /\ (now + d - 1) \div (APPROVAL_TTL * 500) <= MaxHalfTtls
    /\ (now + d - 1) % (APPROVAL_TTL * 500) <= MaxMillis
    /\ now' = now + d
    /\ ledger' = Purge(ledger, now')
    /\ UNCHANGED <<jobs, sessions, delivered, history, lifecycle>>

(***************************************************************************)
(* Specifications                                                          *)
(***************************************************************************)
\* The chats a callback query can come from: those that send messages, and
\* one more.
CallbackChats == Chats \cup {2}

Init ==
    /\ now = 1
    /\ ledger = <<>>
    /\ jobs = [j \in Slots |-> IdleJob]
    /\ sessions = [s \in {SessionId(c) : c \in CallbackChats} |-> <<>>]
    /\ delivered = 0
    /\ lastSaved = <<>>
    /\ written = {}
    /\ resolved = {}
    /\ resumes = <<>>
    /\ finals = <<>>
    /\ executed = {}
    /\ client = "Redis"
    /\ called = Connected

\* The worker: tasks for the updates of human senders, the engine pausing on
\* one or two tool calls, job_timeout cancelling a task at any of its awaits.
Next ==
    \/ \E j \in Slots, via \in Requests({"task"}, {}),
          u \in {v \in PlainUpdates({"message"}) \cup CallbackUpdates : ~v.is_bot} :
          Start(j, MaxDeliveries, via, u)
    \/ \E j \in Slots, o \in EngineOutcomes({1, 2}) : RunnerRun(j, o)
    \/ \E j \in Slots, r \in RedisResults : SaveApproval(j, r)
    \/ \E j \in Slots, f \in TelegramResults : TelegramRequest(j, f)
    \/ \E j \in Slots, r \in RedisResults : GetApproval(j, r)
    \/ \E j \in Slots : FromString(j, "ValueError")
    \/ \E j \in Slots, r \in RedisResults : DeleteApproval(j, r)
    \/ \E j \in Slots, f \in TelegramResults : ExceptClause(j, f)
    \/ \E j \in Slots : Cancel(j)
    \/ \E j \in Slots : Return(j)
    \/ \E d \in {1, APPROVAL_TTL * 1000} : Tick(d)
Spec == Init /\ [][Next]_vars

\* The worker with one more update, so that a decision can be delivered again
\* after a first delivery, or twice at the same time, while Redis and
\* Telegram answer every request.
NextReplay ==
    \/ \E j \in Slots, via \in Requests({"task"}, {}),
          u \in {v \in PlainUpdates({"message"}) \cup CallbackUpdates : ~v.is_bot} :
          Start(j, MaxReplay, via, u)
    \/ \E j \in Slots, o \in EngineOutcomes({1}) : RunnerRun(j, o)
    \/ \E j \in Slots : SaveApproval(j, "ok")
    \/ \E j \in Slots : TelegramRequest(j, "ok")
    \/ \E j \in Slots : GetApproval(j, "ok")
    \/ \E j \in Slots : FromString(j, "ValueError")
    \/ \E j \in Slots : DeleteApproval(j, "ok")
    \/ \E j \in Slots : ExceptClause(j, "ok")
    \/ \E j \in Slots : Return(j)
    \/ Tick(1)
SpecReplay == Init /\ [][NextReplay]_vars

\* The API process after its lifespan started: redis_client connected, or
\* holding the client whose ping() raised, or left without a client when
\* from_url raised.
InitApi ==
    /\ now = 1
    /\ ledger = <<>>
    /\ jobs = [j \in Slots |-> IdleJob]
    /\ sessions = [s \in {SessionId(c) : c \in CallbackChats} |-> <<>>]
    /\ delivered = 0
    /\ lastSaved = <<>>
    /\ written = {}
    /\ resolved = {}
    /\ resumes = <<>>
    /\ finals = <<>>
    /\ executed = {}
    /\ \/ client = "Redis" /\ called = Connected
       \/ /\ client \in {"Redis", "None"}
          /\ called = [Connected EXCEPT !.raised = "Exception", !.result = <<>>,
                                        !.opened = FALSE]

\* Both entry points, every kind of update and sender, the engine pausing on
\* one tool call.
NextInbound ==
    \/ \E j \in Slots, via \in Requests({"webhook", "task"}, {TELEGRAM_X_SECRET_KEY}),
          u \in PlainUpdates(MessageKinds) \cup CallbackUpdates :
          Start(j, MaxInbound, via, u)
    \/ \E j \in Slots : RequestJson(j)
    \/ \E j \in Slots, o \in EngineOutcomes({1}) : RunnerRun(j, o)
    \/ \E j \in Slots, r \in RedisResults : SaveApproval(j, r)
    \/ \E j \in Slots, f \in TelegramResults : TelegramRequest(j, f)
    \/ \E j \in Slots, r \in RedisResults : GetApproval(j, r)
    \/ \E j \in Slots : FromString(j, "ValueError")
    \/ \E j \in Slots, r \in RedisResults : DeleteApproval(j, r)
    \/ \E j \in Slots, f \in TelegramResults : ExceptClause(j, f)
    \/ \E j \in Slots : Cancel(j)
    \/ \E j \in Slots : Return(j)
    \/ Tick(1)
SpecInbound == Init /\ [][NextInbound]_vars

\* The webhook alone, called with and without the secret by human senders,
\* the engine pausing on one tool call.
NextWebhook ==
    \/ \E j \in Slots, via \in Requests({"webhook"}, {TELEGRAM_X_SECRET_KEY, "wrong", NoToken}),
          u \in {v \in PlainUpdates({"message"}) \cup CallbackUpdates : ~v.is_bot} :
          Start(j, MaxWebhook, via, u)
    \/ \E j \in Slots : RequestJson(j)
    \/ \E j \in Slots, o \in EngineOutcomes({1}) : RunnerRun(j, o)
    \/ \E j \in Slots, r \in RedisResults : SaveApproval(j, r)
    \/ \E j \in Slots, f \in TelegramResults : TelegramRequest(j, f)
    \/ \E j \in Slots, r \in RedisResults : GetApproval(j, r)
    \/ \E j \in Slots : FromString(j, "ValueError")
    \/ \E j \in Slots, r \in RedisResults : DeleteApproval(j, r)
    \/ \E j \in Slots, f \in TelegramResults : ExceptClause(j, f)
    \/ \E j \in Slots : Return(j)
    \/ Tick(1)
SpecWebhook == InitApi /\ [][NextWebhook]_vars

\* The worker over a store that already holds, under an id no save returned,
\* content that save_pending_approval did not write.
Foreign(v) == [k \in {UnknownId} |-> [value |-> v, expires_at |-> APPROVAL_TTL * 1000]]
InitStored ==
    /\ now = 1
    /\ ledger \in {Foreign(v) : v \in CorruptValues}
    /\ jobs = [j \in Slots |-> IdleJob]
    /\ sessions = [s \in {SessionId(c) : c \in CallbackChats} |-> <<>>]
    /\ delivered = 0
    /\ lastSaved = <<>>
    /\ written = {}
    /\ resolved = {}
    /\ resumes = <<>>
    /\ finals = <<>>
    /\ executed = {}
    /\ client = "Redis"
    /\ called = Connected
NextStored ==
    \/ \E j \in Slots, via \in Requests({"task"}, {}),
          u \in {v \in PlainUpdates({"message"}) \cup CallbackUpdates : ~v.is_bot} :
          Start(j, MaxStored, via, u)
    \/ \E j \in Slots, o \in EngineOutcomes({1}) : RunnerRun(j, o)
    \/ \E j \in Slots, r \in RedisResults : SaveApproval(j, r)
    \/ \E j \in Slots, f \in TelegramResults : TelegramRequest(j, f)
    \/ \E j \in Slots, r \in RedisResults : GetApproval(j, r)
    \/ \E j \in Slots, x \in FromStringErrors : FromString(j, x)
    \/ \E j \in Slots, r \in RedisResults : DeleteApproval(j, r)
    \/ \E j \in Slots, f \in TelegramResults : ExceptClause(j, f)
    \/ \E j \in Slots : Cancel(j)
    \/ \E j \in Slots : Return(j)
    \/ \E d \in {1, APPROVAL_TTL * 1000} : Tick(d)
SpecStored == InitStored /\ [][NextStored]_vars

\* The worker over a store that holds, under an id no save returned, the
\* well-formed entry of a run state with no interruptions; the engine pauses
\* on two tool calls, and callback queries arrive with the actions of the
\* buttons and with another action.
StoredWithoutInterruptions == StateData(1, NoState, 0)
InitDecision ==
    /\ now = 1
    /\ ledger = Foreign(StoredWithoutInterruptions)
    /\ jobs = [j \in Slots |-> IdleJob]
    /\ sessions = [s \in {SessionId(c) : c \in CallbackChats} |-> <<>>]
    /\ delivered = 0
    /\ lastSaved = <<>>
    /\ written = {}
    /\ resolved = {}
    /\ resumes = <<>>
    /\ finals = <<>>
    /\ executed = {}
    /\ client = "Redis"
    /\ called = Connected
NextDecision ==
    \/ \E j \in Slots, via \in Requests({"task"}, {}),
          u \in {v \in PlainUpdates({"message"})
                        \cup CallbackUpdatesOf(Chats, CallbackDatas \cup UnknownActionDatas) :
                    ~v.is_bot} :
          Start(j, MaxDecision, via, u)
    \/ \E j \in Slots, o \in EngineOutcomes({2}) : RunnerRun(j, o)
    \/ \E j \in Slots, r \in RedisResults : SaveApproval(j, r)
    \/ \E j \in Slots, f \in TelegramResults : TelegramRequest(j, f)
    \/ \E j \in Slots, r \in RedisResults : GetApproval(j, r)
    \/ \E j \in Slots : FromString(j, "ValueError")
    \/ \E j \in Slots, r \in RedisResults : DeleteApproval(j, r)
    \/ \E j \in Slots, f \in TelegramResults : ExceptClause(j, f)
    \/ \E j \in Slots : Cancel(j)
    \/ \E j \in Slots : Return(j)
    \/ Tick(1)
SpecDecision == InitDecision /\ [][NextDecision]_vars

\* The worker when the buttons of a prompt are also pressed from a chat other
\* than the one the prompt was sent to; the engine pauses on one tool call.
NextChats ==
    \/ \E j \in Slots, via \in Requests({"task"}, {}),
          u \in {v \in PlainUpdates({"message"})
                        \cup CallbackUpdatesOf(CallbackChats, CallbackDatas) : ~v.is_bot} :
          Start(j, MaxChats, via, u)
    \/ \E j \in Slots, o \in EngineOutcomes({1}) : RunnerRun(j, o)
    \/ \E j \in Slots, r \in RedisResults : SaveApproval(j, r)
    \/ \E j \in Slots, f \in TelegramResults : TelegramRequest(j, f)
    \/ \E j \in Slots, r \in RedisResults : GetApproval(j, r)
    \/ \E j \in Slots : FromString(j, "ValueError")
    \/ \E j \in Slots, r \in RedisResults : DeleteApproval(j, r)
    \/ \E j \in Slots, f \in TelegramResults : ExceptClause(j, f)
    \/ \E j \in Slots : Cancel(j)
    \/ \E j \in Slots : Return(j)
    \/ Tick(1)
SpecChats == Init /\ [][NextChats]_vars

\* The worker over a store that holds the entry of a run of chat 1 that
\* paused on one tool call before the worker started, while Redis and
\* Telegram answer every request and no entry expires.
StoredPaused == StateData(1, PausedState(0, 1, 1), 0)
InitOverlap ==
    /\ now = 1
    /\ ledger = Foreign(StoredPaused)
    /\ jobs = [j \in Slots |-> IdleJob]
    /\ sessions = [s \in {SessionId(c) : c \in CallbackChats} |-> <<>>]
    /\ delivered = 0
    /\ lastSaved = <<>>
    /\ written = {}
    /\ resolved = {}
    /\ resumes = <<>>
    /\ finals = <<>>
    /\ executed = {}
    /\ client = "Redis"
    /\ called = Connected
NextOverlap ==
    \/ \E j \in Slots, via \in Requests({"task"}, {}),
          u \in {v \in PlainUpdates({"message"}) \cup CallbackUpdates : ~v.is_bot} :
          Start(j, MaxOverlap, via, u)
    \/ \E j \in Slots, o \in EngineOutcomes({1}) : RunnerRun(j, o)
    \/ \E j \in Slots : SaveApproval(j, "ok")
    \/ \E j \in Slots : TelegramRequest(j, "ok")
    \/ \E j \in Slots : GetApproval(j, "ok")
    \/ \E j \in Slots : FromString(j, "ValueError")
    \/ \E j \in Slots : DeleteApproval(j, "ok")
    \/ \E j \in Slots : ExceptClause(j, "ok")
    \/ \E j \in Slots : Return(j)
    \/ Tick(1)
SpecOverlap == InitOverlap /\ [][NextOverlap]_vars

\* The worker started over a store that holds the entry a run of chat 1 saved
\* at time 0, while time goes by in every amount, Redis and Telegram answer
\* every request and the engine completes or pauses on one tool call: entries
\* are saved at different times and expire one after the other.
InitClock ==
    /\ now = 1
    /\ ledger = Foreign(StoredPaused)
    /\ jobs = [j \in Slots |-> IdleJob]
    /\ sessions = [s \in {SessionId(c) : c \in CallbackChats} |-> <<>>]
    /\ delivered = 0
    /\ lastSaved = [k \in {UnknownId} |->
                        [state |-> PausedState(0, 1, 1), at |-> 0,
                         states |-> {PausedState(0, 1, 1)}]]
    /\ written = {PausedState(0, 1, 1).calls[1]}
    /\ resolved = {}
    /\ resumes = <<>>
    /\ finals = <<>>
    /\ executed = {}
    /\ client = "Redis"
    /\ called = Connected
NextClock ==
    \/ \E j \in Slots, via \in Requests({"task"}, {}),
          u \in {v \in PlainUpdates({"message"}) \cup CallbackUpdates : ~v.is_bot} :
          Start(j, MaxClock, via, u)
    \/ \E j \in Slots, o \in {x \in EngineOutcomes({1}) : x.kind # "raise"} : RunnerRun(j, o)
    \/ \E j \in Slots : SaveApproval(j, "ok")
    \/ \E j \in Slots : TelegramRequest(j, "ok")
    \/ \E j \in Slots : GetApproval(j, "ok")
    \/ \E j \in Slots : FromString(j, "ValueError")
    \/ \E j \in Slots : DeleteApproval(j, "ok")
    \/ \E j \in Slots : ExceptClause(j, "ok")
    \/ \E j \in Slots : Return(j)
    \/ \E d \in Durations : Tick(d)
SpecClock == InitClock /\ [][NextClock]_vars

\* The message task alone, over new messages with photos, documents and
\* captions, the engine pausing on one tool call.
NextInput ==
    \/ \E j \in Slots, via \in Requests({"task"}, {}),
          u \in {m \in MessageUpdates : ~m.is_bot /\ m.kind = "message"} :
          Start(j, MaxInput, via, u)
    \/ \E j \in Slots, fu \in FileResults : GetFileUrl(j, fu)
    \/ \E j \in Slots, o \in EngineOutcomes({1}) : RunnerRun(j, o)
    \/ \E j \in Slots, r \in RedisResults : SaveApproval(j, r)
    \/ \E j \in Slots, f \in TelegramResults : TelegramRequest(j, f)
    \/ \E j \in Slots, f \in TelegramResults : ExceptClause(j, f)
    \/ \E j \in Slots : Cancel(j)
    \/ \E j \in Slots : Return(j)
    \/ Tick(1)
SpecInput == Init /\ [][NextInput]_vars

(***************************************************************************)
(* The store client by itself: src/utils/redis_client.py                   *)
(***************************************************************************)
\* A call made in this step ends in it: it raises e, or returns v.
Raised(op, e) ==
    [called EXCEPT !.op = op, !.raised = e, !.result = <<>>, !.was_open = called.opened]
Returned(op, v) ==
    [called EXCEPT !.op = op, !.raised = "none", !.result = <<v>>,
                   !.was_open = called.opened]

\* A call passes `if not self._client` and is suspended at the await of its
\* command on the client it read.
Suspended(op, key, value) ==
    [called EXCEPT !.pending = Append(@, [op |-> op, key |-> key, value |-> value,
                                          was_open |-> called.opened])]

ClientKeys == {ApprovalId(1, 0), ApprovalId(1, 1)}

\* connect(redis_url) up to its await of ping(): from_url raises, which
\* connect raises again, or gives the client, which is assigned to _client.
ClientConnect(url) ==
    /\ ~called.connecting
    /\ client' = IF url = "ok" THEN "Redis" ELSE client
    /\ called' = IF url = "ok" THEN [called EXCEPT !.connecting = TRUE,
                                                    !.made_open = called.opened]
                 ELSE [Raised("connect", "Exception") EXCEPT !.opened = FALSE]
    /\ UNCHANGED <<now, ledger, jobs, sessions, delivered, history>>

\* await self._client.ping() of connect returns, and connect returns, or
\* raises, and connect raises it again. The call was made in ClientConnect.
ClientPing(ping) ==
    /\ called.connecting
    /\ called' = IF ping = "ok"
                 THEN [Returned("connect", "None") EXCEPT !.opened = TRUE,
                                                         !.connecting = FALSE,
                                                         !.was_open = called.made_open,
                                                         !.made_open = FALSE]
                 ELSE [Raised("connect", "Exception") EXCEPT !.opened = FALSE,
                                                            !.connecting = FALSE,
                                                            !.was_open = called.made_open,
                                                            !.made_open = FALSE]
    /\ UNCHANGED <<now, ledger, jobs, sessions, delivered, history, client>>

\* disconnect() up to its await: without a client it returns, with one it
\* awaits aclose() of the client.
ClientDisconnect ==
    /\ IsConnected => Len(called.pending) < MaxPending
    /\ called' = IF IsConnected
                 THEN [Suspended("disconnect", <<>>, <<>>) EXCEPT !.opened = FALSE]
                 ELSE [Returned("disconnect", "None") EXCEPT !.opened = FALSE]
    /\ UNCHANGED <<now, ledger, jobs, sessions, delivered, history, client>>

\* await self._client.aclose() of the i-th suspended call returns, and
\* disconnect sets _client to None and returns; or it raises, which leaves
\* disconnect with _client as it is.
ClientClosed(i, close) ==
    /\ i \in 1..Len(called.pending)
    /\ called.pending[i].op = "disconnect"
    /\ LET rest == [called EXCEPT !.pending = SubSeq(@, 1, i - 1) \o SubSeq(@, i + 1, Len(@)),
                                  !.op = "disconnect",
                                  !.was_open = called.pending[i].was_open]
       IN  called' = IF close = "ok"
                     THEN [rest EXCEPT !.raised = "none", !.result = <<"None">>]
                     ELSE [rest EXCEPT !.raised = "Exception", !.result = <<>>]
    /\ client' = IF close = "ok" THEN "None" ELSE client
    /\ UNCHANGED <<now, ledger, jobs, sessions, delivered, history>>

\* get(key) up to its await: RuntimeError without a client.
ClientGet(key) ==
    /\ IsConnected => Len(called.pending) < MaxPending
    /\ called' = IF ~IsConnected THEN Raised("get", "RuntimeError")
                 ELSE Suspended("get", key, <<>>)
    /\ UNCHANGED <<now, ledger, jobs, sessions, delivered, history, client>>

\* set(key, value, ex) up to its await
ClientSet(key, value) ==
    /\ IsConnected => Len(called.pending) < MaxPending
    /\ called' = IF ~IsConnected THEN Raised("set", "RuntimeError")
                 ELSE Suspended("set", key, value)
    /\ UNCHANGED <<now, ledger, jobs, sessions, delivered, history, client>>

\* delete(key) up to its await
ClientDelete(key) ==
    /\ IsConnected => Len(called.pending) < MaxPending
    /\ called' = IF ~IsConnected THEN Raised("delete", "RuntimeError")
                 ELSE Suspended("delete", key, <<>>)
    /\ UNCHANGED <<now, ledger, jobs, sessions, delivered, history, client>>

\* exists(key) up to its await
ClientExists(key) ==
    /\ IsConnected => Len(called.pending) < MaxPending
    /\ called' = IF ~IsConnected THEN Raised("exists", "RuntimeError")
                 ELSE Suspended("exists", key, <<>>)
    /\ UNCHANGED <<now, ledger, jobs, sessions, delivered, history, client>>

\* The command the i-th suspended get, set, delete or exists awaits returns
\* or raises, on the client the call read when it was made: the call returns
\* the value, True or `result > 0`, or, from its except clause, None or False.
ClientReturn(i, r) ==
    /\ i \in 1..Len(called.pending)
    /\ called.pending[i].op # "disconnect"
    /\ LET c == called.pending[i]
           rest == [called EXCEPT !.pending = SubSeq(@, 1, i - 1) \o SubSeq(@, i + 1, Len(@)),
                                  !.op = c.op, !.raised = "none",
                                  !.was_open = c.was_open]
       IN  /\ called' =
                [rest EXCEPT !.result =
                    IF c.op = "get" THEN <<RedisGet(ledger, c.key, now, r)>>
                    ELSE IF c.op = "set" THEN <<r = "ok">>
                    ELSE IF c.op = "delete" THEN <<RedisDeleted(ledger, c.key, now, r)>>
                    ELSE <<r = "ok" /\ Live(ledger, c.key, now)>>]
           /\ ledger' =
                IF c.op = "set" THEN RedisSet(ledger, c.key, c.value, APPROVAL_TTL, now, r)
                ELSE IF c.op = "delete" THEN RedisDelete(ledger, c.key, r)
                ELSE ledger
    /\ UNCHANGED <<now, jobs, sessions, delivered, history, client>>

\* The singleton as the module creates it: redis_client = RedisClient()
InitClient ==
    /\ now = 1
    /\ ledger = <<>>
    /\ jobs = [j \in Slots |-> IdleJob]
    /\ sessions = [s \in {SessionId(c) : c \in CallbackChats} |-> <<>>]
    /\ delivered = 0
    /\ lastSaved = <<>>
    /\ written = {}
    /\ resolved = {}
    /\ resumes = <<>>
    /\ finals = <<>>
    /\ executed = {}
    /\ client = "None"
    /\ called = NoCall
NextClient ==
    \/ \E url \in RedisResults : ClientConnect(url)
    \/ \E ping \in RedisResults : ClientPing(ping)
    \/ ClientDisconnect
    \/ \E i \in 1..MaxPending, close \in RedisResults : ClientClosed(i, close)
    \/ \E key \in ClientKeys : ClientGet(key)
    \/ \E key \in ClientKeys, value \in {NotJson, StoredWithoutInterruptions} :
          ClientSet(key, value)
    \/ \E key \in ClientKeys : ClientDelete(key)
    \/ \E key \in ClientKeys : ClientExists(key)
    \/ \E i \in 1..MaxPending, r \in RedisResults : ClientReturn(i, r)
SpecClient == InitClient /\ [][NextClient]_vars


(***************************************************************************)
(* Properties                                                              *)
(***************************************************************************)
\* The handler ran to its end: it returned or an exception left it.
Ended(j) == jobs[j].pc = "done" /\ jobs[j].end # "cancelled"
IsCallback(j) == jobs[j].kind = "callback_query"

ExpiredOut == <<AnswerCallbackQuery(TextExpiredToast), SendMessage(TextExpiredMessage)>>

\* C1: the engine executes a fetch_weather call only in a run resumed by a
\* callback whose action is 'approve', from a state that get_pending_approval
\* retrieved from the ledger (so one whose ledger write succeeded), and the
\* call is the first interruption of that state, the one the decision was
\* applied to. A call never decided, rejected, or never stored is not executed.
C1_ToolOnlyAfterApproval ==
    \A e \in executed :
        /\ e.action = "approve"
        /\ e.found
        /\ e.call = e.first
        /\ e.call \in written

\* A tool call has been executed after an approval.
C1_Witness == \E e \in executed : e.action = "approve" /\ e.call \in written

\* C2: a callback task that starts after an ended callback handler resumed
\* the engine with a decision for the same approval id ends in the expired
\* branch: it has sent the expired toast and message and never ran the engine.
C2_ReplayTakesExpiredBranch ==
    \A j \in Slots :
        (Ended(j) /\ IsCallback(j) /\ jobs[j].entry = "task" /\ jobs[j].replay)
            => /\ jobs[j].runs = 0
               /\ jobs[j].branch = "expired"
               /\ (~jobs[j].io_error => jobs[j].out = ExpiredOut)

\* C3: of two callback tasks in progress at the same time with a decision for
\* the same approval id, at most one resumes the engine.
C3_AtMostOneResume ==
    \A i, j \in Slots :
        (i # j /\ IsCallback(i) /\ IsCallback(j) /\ jobs[i].looked /\ jobs[j].looked
            /\ jobs[i].approval_id = jobs[j].approval_id)
            => ~(jobs[i].runs > 0 /\ jobs[j].runs > 0)

\* C4: the final output of a request is sent at most once, and it has been
\* sent once when a handler of the request ends on the completed path.
C4_FinalExactlyOnce ==
    /\ \A q \in DOMAIN finals : finals[q] <= 1
    /\ \A j \in Slots :
        (Ended(j) /\ jobs[j].branch = "completed")
            => (jobs[j].req \in DOMAIN finals /\ finals[jobs[j].req] = 1)

\* C5: when a callback handler that retrieved the entry of its approval id
\* ends, whatever the outcome, the ledger no longer holds that id.
C5_EntryGoneWhenCallbackEnds ==
    \A j \in Slots :
        (Ended(j) /\ IsCallback(j) /\ jobs[j].found)
            => jobs[j].approval_id \notin DOMAIN ledger

\* C6: save_pending_approval(chat, S) followed by get_pending_approval of the
\* id it returned, before the TTL has elapsed and with no delete in between,
\* gives back S. For every state S that a save which returned the id was
\* given, the store having held an entry under the id ever since: the entry
\* is found and parses to a state whose serialised form is that of S; and a
\* lookup of the id that got the entry hands to_string(S) to
\* RunState.from_string, and the state the handler retrieves has the
\* serialised form of S.
C6_RoundTrip ==
    /\ \A k \in DOMAIN ledger \cap DOMAIN lastSaved :
        Live(ledger, k, now) =>
            \A S \in lastSaved[k].states :
                /\ GetPendingApproval(ledger, k, now, "ok").found
                /\ to_string(GetPendingApproval(ledger, k, now, "ok").state) = to_string(S)
    /\ \A j \in Slots : \A S \in jobs[j].expected :
        /\ jobs[j].data_str # <<>>
                => json_loads(jobs[j].data_str[1]).state.str = to_string(S)
        /\ jobs[j].found => to_string(jobs[j].retrieved) = to_string(S)

\* C7: every ledger entry expires 3600 seconds after it was written, and a
\* lookup made 3600 seconds or more after the write of its id finds nothing:
\* the callback takes the expired branch.
C7_ExpiresAfterTtl ==
    /\ \A k \in DOMAIN ledger :
        ledger[k].expires_at = lastSaved[k].at + 3600 * 1000
    /\ \A j \in Slots :
        (jobs[j].looked /\ jobs[j].approval_id \in DOMAIN lastSaved
            /\ jobs[j].lookup_at >= lastSaved[jobs[j].approval_id].at + 3600 * 1000)
            => (~jobs[j].found /\ jobs[j].branch = "expired" /\ jobs[j].runs = 0)

\* A callback for an id that was stored has arrived after the TTL and ended
\* in the expired branch.
C7_Witness ==
    \E j \in Slots :
        /\ Ended(j) /\ jobs[j].looked /\ jobs[j].approval_id \in DOMAIN lastSaved
        /\ jobs[j].lookup_at >= lastSaved[jobs[j].approval_id].at + 3600 * 1000
        /\ jobs[j].branch = "expired"

\* C8: a callback whose approval id has no ledger entry ends normally (no
\* exception escapes the handler) having sent the expired toast and the
\* expired message and without running the engine, when the handler has its
\* Redis client and the Telegram requests themselves succeed.
C8_MissingEntryEndsNormally ==
    \A j \in Slots :
        (Ended(j) /\ IsCallback(j) /\ HasClient(jobs[j])
            /\ jobs[j].looked /\ ~jobs[j].found /\ ~jobs[j].io_error)
            => /\ jobs[j].end = "returned"
               /\ jobs[j].out = ExpiredOut
               /\ jobs[j].runs = 0

\* C9: the handler of an update whose sender is a bot never runs the engine,
\* and ends having sent the one 'I don't respond to bots' message.
C9_BotSuppressed ==
    \A j \in Slots :
        jobs[j].is_bot
            => /\ jobs[j].runs = 0
               /\ (Ended(j) /\ ~jobs[j].io_error => jobs[j].out = <<SendMessage(TextBot)>>)

\* C10: the webhook answers the transport without running the engine: the
\* handler of a webhook request never gets to an engine run.
C10_WebhookNeverRunsEngine ==
    \A j \in Slots : jobs[j].entry = "webhook" => jobs[j].runs = 0

\* C11: no exception escapes process_message_task or
\* process_callback_query_task, whatever fails: every task returns normally.
C11_TaskReturnsNormally ==
    \A j \in Slots : jobs[j].entry = "task" => jobs[j].end # "raised"

\* C14: save_pending_approval calls redis_client.set exactly once and ends
\* when that call ends, with no second attempt: a handler suspended in it has
\* made one call, and the step that ends the call takes the handler out of
\* save_pending_approval without another one. Either the handler gets the id
\* hitl:<chat_id>:<ms timestamp> and the ledger then holds the serialised
\* snapshot under that id, or the call raised: the handler gets no id, the
\* ledger is as it was and the handler is in its error branch.
C14_SaveStoresOrRaises ==
    /\ [][\A j \in Slots :
            (jobs[j].pc = "save" /\ jobs'[j] # jobs[j] /\ jobs'[j].end # "cancelled")
                => LET id == jobs'[j].saved_id
                       job == jobs[j]
                   IN  /\ jobs'[j].pc # "save"
                       /\ jobs'[j].sets = 1
                       /\ IF id # <<>>
                          THEN /\ id = <<"hitl", ToString(job.chat), ToString(job.timestamp)>>
                               /\ id \in DOMAIN ledger'
                               /\ ledger'[id].value =
                                     json_dumps([state |-> PyStr(to_string(job.result.state)),
                                                 chat_id |-> PyInt(job.chat),
                                                 timestamp |-> PyInt(job.timestamp)])
                               /\ json_loads(ledger'[id].value).state.str
                                     = to_string(job.result.state)
                          ELSE /\ ledger' = ledger
                               /\ jobs'[j].branch = "error"]_vars
    /\ [](\A j \in Slots :
            /\ jobs[j].sets <= 1
            /\ (jobs[j].pc = "save" \/ jobs[j].saved_id # <<>>) => jobs[j].sets = 1)

\* A handler holds the id of a snapshot that the ledger holds, after its one
\* call of redis_client.set, and is about to send the prompt for it.
C14_Witness ==
    \E j \in Slots : jobs[j].saved_id # <<>> /\ jobs[j].saved_id \in DOMAIN ledger
                     /\ jobs[j].pc = "prompt" /\ jobs[j].sets = 1

\* C16: the two payloads built for an approval id are approve:<id> and
\* reject:<id>, splitting either on its first colon gives back the action and
\* the whole id (three colon separated fields), and what a handler parsed out
\* of a payload joins back to that payload.
C16_CallbackDataRoundTrip ==
    /\ \A id \in DOMAIN lastSaved \cup {UnknownId} :
        /\ Len(id) = 3
        /\ BuildApprovalKeyboard(id) = <<<<"approve">> \o id, <<"reject">> \o id>>
        /\ SplitFirst(BuildApprovalKeyboard(id)[1]) = <<"approve", id>>
        /\ SplitFirst(BuildApprovalKeyboard(id)[2]) = <<"reject", id>>
    /\ \A j \in Slots :
        jobs[j].looked => <<jobs[j].action>> \o jobs[j].approval_id = jobs[j].data

\* A handler has parsed the Reject payload of a stored id and found its entry.
C16_Witness ==
    \E j \in Slots : /\ jobs[j].looked /\ jobs[j].found /\ jobs[j].action = "reject"
                     /\ jobs[j].approval_id \in DOMAIN lastSaved
                     /\ jobs[j].data = BuildApprovalKeyboard(jobs[j].approval_id)[2]

\* C18: when the approval prompt of a message handler goes out, it carries
\* the buttons of the id its save returned and describes the first
\* interruption of the result, that id was stored before, and the entry the
\* ledger holds under it is the paused state of this handler's run; and no
\* prompt is ever sent with the buttons of an id never stored.
C18_PromptAfterStore ==
    /\ [][\A j \in Slots :
            (/\ jobs[j].pc = "prompt" /\ jobs[j].kind \in MessageKinds
             /\ Len(jobs'[j].out) > Len(jobs[j].out))
            => LET id == jobs[j].saved_id
                   sent == jobs'[j].out[Len(jobs'[j].out)]
               IN  /\ id \in DOMAIN lastSaved
                   /\ sent.text = TextApprovalPrompt
                   /\ sent.ref = BuildApprovalKeyboard(id)
                   /\ sent.about = Interruptions(jobs[j].result)[1]
                   /\ Live(ledger, id, now) =>
                        GetPendingApproval(ledger, id, now, "ok").state
                            = jobs[j].result.state]_vars
    /\ [](\A j \in Slots : \A i \in 1..Len(jobs[j].out) :
            jobs[j].out[i].text = TextApprovalPrompt
            => \E id \in DOMAIN lastSaved : jobs[j].out[i].ref = BuildApprovalKeyboard(id))

\* C19: when a callback handler that stored a nested paused state ends, the
\* new id differs from the one it resolved, the ledger holds the new entry
\* and no longer holds the old one.
C19_NestedEntryReplacesOld ==
    \A j \in Slots :
        (Ended(j) /\ IsCallback(j) /\ jobs[j].found /\ jobs[j].saved_id # <<>>)
            => /\ jobs[j].saved_id # jobs[j].approval_id
               /\ jobs[j].saved_id \in DOMAIN ledger
               /\ jobs[j].approval_id \notin DOMAIN ledger

\* C20: the value stored under an approval id never changes while the entry
\* is in the ledger: no second save returns an id already handed out.
C20_SnapshotsImmutable ==
    [][\A k \in DOMAIN ledger \cap DOMAIN ledger' :
        Live(ledger, k, now) => ledger'[k].value = ledger[k].value]_vars

\* C15: delete_pending_approval never raises: the handler that called it
\* returns in the branch it was in and with the same outbound calls, whatever
\* the store did; the call returns True exactly when the key was in the store
\* and is gone from it after the call.
C15_DeleteIsBestEffort ==
    [][\A j \in Slots :
        (jobs[j].pc = "delete" /\ jobs'[j].pc = "done" /\ jobs'[j].end # "cancelled")
            => LET id == jobs[j].approval_id IN
               /\ jobs'[j].deleted \in {"True", "False"}
               /\ (jobs'[j].deleted = "True")
                     <=> (Live(ledger, id, now) /\ id \notin DOMAIN ledger')
               /\ jobs'[j].end = "returned"
               /\ jobs'[j].branch = jobs[j].branch
               /\ jobs'[j].out = jobs[j].out]_vars

\* A callback handler has returned on its completed path after a delete that
\* removed nothing.
C15_Witness ==
    \E j \in Slots : /\ Ended(j) /\ jobs[j].deleted = "False"
                     /\ jobs[j].branch = "completed" /\ jobs[j].end = "returned"

\* C17: a webhook request whose secret token header is missing or wrong is
\* answered 403 before anything else happens: its handler never reads the
\* payload, never runs the engine, never looks up or saves an approval, pops
\* nothing off the session and sends nothing, and the step leaves the ledger,
\* the sessions and the clock as they were.
C17_BadTokenRejected ==
    /\ [](\A j \in Slots :
            (jobs[j].entry = "webhook" /\ jobs[j].token # "secret")
                => /\ jobs[j].end = "http_403"
                   /\ jobs[j].runs = 0 /\ jobs[j].out = <<>> /\ jobs[j].pops = 0
                   /\ ~jobs[j].looked /\ jobs[j].saved_id = <<>>
                   /\ jobs[j].kind = "none")
    /\ [][\A j \in Slots :
            (jobs[j].pc = "idle" /\ jobs'[j].entry = "webhook" /\ jobs'[j].token # "secret")
                => (ledger' = ledger /\ now' = now /\ history' = history
                    /\ sessions' = sessions)]_vars

\* A webhook request without the header has been answered 403.
C17_Witness ==
    \E j \in Slots : /\ jobs[j].pc = "done" /\ jobs[j].entry = "webhook"
                     /\ jobs[j].token = "none" /\ jobs[j].end = "http_403"

\* C13: whenever get_pending_approval fails (key absent, key expired, or
\* stored content that cannot be parsed) the callback handler is in the
\* expired branch: every failure is the one not-found error.
C13_OneNotFoundError ==
    \A j \in Slots :
        (Ended(j) /\ IsCallback(j) /\ jobs[j].looked /\ ~jobs[j].found)
            => jobs[j].branch = "expired"

\* C12: the input a message handler runs the engine on is chosen photo first,
\* then document, then text. With a photo it is one user item holding the
\* caption (when there is one) followed by the image reference of the largest
\* size, never a plain string and never without the caption; with a document
\* and no photo, the caption and the file reference; otherwise the text.
C12_PhotoThenDocumentThenText ==
    \A j \in Slots :
        jobs[j].runs > 0 /\ jobs[j].kind \in MessageKinds =>
            LET job == jobs[j]
                caption == IF job.caption # ""
                           THEN <<[type |-> "input_text", text |-> job.caption, url |-> <<>>]>>
                           ELSE <<>>
                item(ref) == [type |-> "items", text |-> "",
                              items |-> <<[role |-> "user", content |-> caption \o <<ref>>]>>]
            IN  IF job.photo # <<>>
                THEN job.agent_input =
                        item([type |-> "input_image", text |-> "",
                              url |-> <<"https://api.telegram.org/file", "large">>])
                ELSE IF job.document # ""
                THEN job.agent_input =
                        item([type |-> "input_file", text |-> "",
                              url |-> <<"https://api.telegram.org/file", job.document>>])
                ELSE job.agent_input = [type |-> "string", text |-> job.text, items |-> <<>>]
                     /\ job.text # ""

\* A handler has run the engine on a message with a photo, a document, a
\* caption and a text.
C12_Witness ==
    \E j \in Slots : /\ jobs[j].runs > 0 /\ jobs[j].photo # <<>> /\ jobs[j].caption # ""
                     /\ jobs[j].document # "" /\ jobs[j].text # ""
                     /\ Len(jobs[j].agent_input.items[1].content) = 2

\* An ended task of the queue worker that took the except Exception branch
Failed(j) == Ended(j) /\ jobs[j].entry = "task" /\ jobs[j].branch = "error"

\* The notice the except Exception branch sends to the chat
IsNotice(job, c) ==
    /\ c.api = "sendMessage"
    /\ c.text = IF job.kind = "callback_query" THEN TextErrorMessage ELSE TextSorry

HasNotice(job) == \E i \in 1..Len(job.out) : IsNotice(job, job.out[i])

\* C23: a task that ended in its except Exception branch has sent the fixed
\* notice to the chat and has removed history entries from the session:
\* exactly one in the message task, exactly two in the callback task.
C23_ErrorPathNoticeAndPops ==
    \A j \in Slots :
        Failed(j) =>
            /\ HasNotice(jobs[j])
            /\ jobs[j].pops = IF IsCallback(j) THEN 2 ELSE 1
            /\ \A i \in 1..Len(jobs[j].popped) : jobs[j].popped[i] # <<>>

\* The session holds a user turn that the run of update n added and no
\* assistant reply of that run after it.
Dangling(items, n) ==
    \E i \in 1..Len(items) :
        /\ items[i] = Item("user", n)
        /\ \A k \in (i + 1)..Len(items) : items[k] # Item("assistant", n)

\* C24: after a task that ended on a failure path, the session of its chat
\* holds no user turn of this task without an assistant reply, and every item
\* the handler popped is one its own run added (no item of another exchange
\* is lost).
C24_HistoryConsistentAfterFailure ==
    \A j \in Slots :
        Failed(j) =>
            /\ ~Dangling(sessions[SessionId(jobs[j].chat)], jobs[j].n)
            /\ \A i \in 1..Len(jobs[j].popped) :
                jobs[j].popped[i] # <<>> => jobs[j].popped[i][1].by = jobs[j].n

\* C25: a task pops history items only in its except Exception branch: a task
\* that ended on the completed path, on the interruption path or in the
\* not-found/expired branch of a callback has called pop_item zero times.
C25_PopsOnlyOnErrorPaths ==
    \A j \in Slots :
        (Ended(j) /\ jobs[j].branch \in {"completed", "awaiting", "expired"})
            => jobs[j].pops = 0

\* The texts of the messages that tell the user of a failure
FailureTexts ==
    {TextSorry, TextErrorMessage, TextErrorToast, TextExpiredMessage, TextExpiredToast,
     TextNoImage, TextNoDocument}

\* C27: a failure message a handler sends is one of the fixed texts and
\* carries nothing else: no outbound call has the text of an exception
\* formatted into it.
C27_NoExceptionTextSent ==
    \A j \in Slots : \A i \in 1..Len(jobs[j].out) :
        jobs[j].out[i].text \in FailureTexts => jobs[j].out[i].ref = <<>>

\* The final answer, and the approval prompt of the entry the task stored
HasFinal(job) ==
    \E i \in 1..Len(job.out) : job.out[i].text = TextFinalOutput

HasPrompt(job) ==
    \E i \in 1..Len(job.out) :
        /\ job.out[i].text = TextApprovalPrompt
        /\ job.out[i].ref = BuildApprovalKeyboard(job.saved_id)

\* C30: a task whose engine run began and that ran to its end ends in one of
\* the three outcomes: COMPLETED with the final answer sent, AWAITING_APPROVAL
\* with the state stored and the prompt sent, or FAILED with the failure
\* notice sent.
C30_EndsInTerminalOutcome ==
    \A j \in Slots :
        (Ended(j) /\ jobs[j].entry = "task" /\ jobs[j].runs > 0) =>
            \/ jobs[j].branch = "completed" /\ HasFinal(jobs[j])
            \/ jobs[j].branch = "awaiting" /\ jobs[j].saved_id # <<>> /\ HasPrompt(jobs[j])
            \/ jobs[j].branch = "error" /\ HasNotice(jobs[j])

\* The apology of the inner except clauses of the photo and document branches
IsApology(c) == c.api = "sendMessage" /\ c.text \in {TextNoImage, TextNoDocument}

\* C28: a message handler whose get_telegram_file_url call failed has sent
\* one apology and returned: it has not run the engine and has popped no
\* history item.
C28_FileFailureShortCircuits ==
    \A j \in Slots :
        (Ended(j) /\ jobs[j].kind \in MessageKinds /\ jobs[j].file_url = "error") =>
            /\ Len(jobs[j].out) = 1 /\ IsApology(jobs[j].out[1])
            /\ jobs[j].end = "returned"
            /\ jobs[j].runs = 0
            /\ jobs[j].pops = 0

\* A message with no photo, no document and an empty text
Empty(job) ==
    /\ job.kind \in MessageKinds
    /\ job.photo = <<>> /\ job.document = "" /\ job.text = ""

\* C29: the handler of a message with no photo, no document and no text ends
\* in the step that took the message, by returning: it has not run the engine
\* (so the session got no item), has made no outbound call and no pop_item
\* call, and the ledger and the sessions are as they were.
C29_EmptyMessageIsNoOp ==
    [][\A j \in Slots :
        (jobs[j].pc = "idle" /\ jobs'[j].pc # "idle" /\ Empty(jobs'[j])) =>
            /\ jobs'[j].pc = "done" /\ jobs'[j].end = "returned"
            /\ jobs'[j].runs = 0 /\ jobs'[j].appended = <<>>
            /\ jobs'[j].out = <<>> /\ jobs'[j].pops = 0
            /\ ledger' = ledger /\ sessions' = sessions]_vars

\* A handler has ended on a message that carried a caption and nothing else.
C29_Witness ==
    \E j \in Slots : /\ Ended(j) /\ Empty(jobs[j]) /\ jobs[j].caption # ""
                     /\ jobs[j].branch = "no_input"

\* C22: a message handler whose fresh run completed without interruptions
\* goes on to send the final output of the run and never to a save; the run
\* and the send leave the ledger as they found it; the handler returns having
\* sent the final output and nothing else, or, when that sendMessage request
\* failed, goes to its except branch.
C22_CompletedSendsFinalOnly ==
    /\ [][\A j \in Slots :
            (/\ jobs[j].kind \in MessageKinds
             /\ jobs[j].pc \in {"running", "final"} /\ jobs'[j].pc # jobs[j].pc
             /\ jobs'[j].result.kind = "completed" /\ jobs'[j].end # "cancelled") =>
                /\ ledger' = ledger
                /\ jobs'[j].saved_id = <<>>
                /\ jobs[j].pc = "running" => jobs'[j].pc = "final"
                /\ jobs[j].pc = "final" =>
                    \/ /\ jobs'[j].branch = "completed"
                       /\ jobs'[j].end = "returned"
                       /\ jobs'[j].out =
                             <<Call("sendMessage", TextFinalOutput,
                                    jobs[j].result.final_output, <<>>)>>
                       /\ jobs'[j].pops = 0
                    \/ /\ jobs'[j].branch = "error"
                       /\ jobs'[j].io_error
                       /\ ~HasFinal(jobs'[j])]_vars
    /\ [](\A j \in Slots :
            (/\ Ended(j) /\ jobs[j].kind \in MessageKinds
             /\ jobs[j].result.kind = "completed" /\ ~jobs[j].io_error) =>
                /\ jobs[j].branch = "completed"
                /\ HasFinal(jobs[j]))

\* A message task has returned after sending the final output of its run.
C22_Witness ==
    \E j \in Slots : /\ Ended(j) /\ jobs[j].kind \in MessageKinds
                     /\ jobs[j].branch = "completed" /\ HasFinal(jobs[j])
                     /\ ledger = <<>>

\* C26: when save_pending_approval raised on the interruption path of a
\* fresh or of a resumed run, the handler goes to its except branch: the
\* ledger is as it was and nothing more is recorded as stored (no second
\* write); and when the handler has ended, no approval prompt was sent and
\* the failure notice was sent to the chat.
C26_SaveFailureSurfaced ==
    /\ [][\A j \in Slots :
            (/\ jobs[j].pc = "save" /\ jobs'[j].pc # "save"
             /\ jobs'[j].end # "cancelled" /\ jobs'[j].saved_id = <<>>) =>
                /\ ledger' = ledger /\ lastSaved' = lastSaved
                /\ jobs'[j].pc = "except" /\ jobs'[j].branch = "error"]_vars
    /\ [](\A j \in Slots :
            (/\ Ended(j) /\ Interruptions(jobs[j].result) # <<>>
             /\ jobs[j].saved_id = <<>>) =>
                /\ \A i \in 1..Len(jobs[j].out) : jobs[j].out[i].text # TextApprovalPrompt
                /\ HasNotice(jobs[j]))

\* C21: a callback handler starts the engine only when the acknowledgement
\* of its decision has gone out, after a successful lookup, on a retrieved
\* state that lists interruptions and to whose first interruption it applied
\* the decision of the callback (approve for 'approve', reject otherwise; the
\* other calls and decisions as retrieved); the run is the resumed run of
\* that decided state. From a retrieved state with no interruptions the
\* engine is not run.
C21_DecideAckThenResume ==
    /\ [][\A j \in Slots :
            (IsCallback(j) /\ jobs'[j].runs > jobs[j].runs) =>
                /\ jobs[j].pc = "ack" /\ jobs'[j].pc = "running"
                /\ jobs[j].found
                /\ jobs[j].retrieved.calls # <<>>
                /\ jobs[j].decided
                /\ jobs'[j].state = jobs[j].state
                /\ jobs[j].state.calls = jobs[j].retrieved.calls
                /\ jobs[j].state.decisions =
                        [jobs[j].retrieved.decisions EXCEPT
                            ![1] = IF jobs[j].action = "approve" THEN "approve" ELSE "reject"]
                /\ jobs'[j].out = <<AnswerCallbackQuery(DecisionToast(jobs[j].action))>>]_vars
    /\ [][\A j \in Slots :
            (IsCallback(j) /\ jobs[j].pc = "running" /\ jobs'[j].pc \in {"save", "final"}) =>
                \E o \in EngineOutcomes({2}) :
                    jobs'[j].result = RunResumed(jobs[j].state, o)]_vars
    /\ [](\A j \in Slots :
            (IsCallback(j) /\ jobs[j].found /\ jobs[j].retrieved.calls = <<>>)
                => jobs[j].runs = 0)

\* A callback handler has resumed the engine from a state with two
\* interruptions after rejecting the first of them.
C21_Witness ==
    \E j \in Slots : /\ IsCallback(j) /\ jobs[j].runs = 1 /\ jobs[j].decided
                     /\ jobs[j].action = "reject"
                     /\ Len(jobs[j].retrieved.calls) = 2
                     /\ jobs[j].state.decisions = <<"reject", "none">>
                     /\ jobs[j].out[1] = AnswerCallbackQuery(TextRejected)

\* The toast or the message of the except ValueError branch
IsExpiredNotice(c) ==
    \/ c.api = "answerCallbackQuery" /\ c.text = TextExpiredToast
    \/ c.api = "sendMessage" /\ c.text = TextExpiredMessage

\* C34: a callback handler has sent the 'approval expired' toast or message
\* only after a ledger lookup that found no usable entry: never after a
\* lookup that found the entry, never after starting the resumed run, and
\* never for callback data that has no colon (for which no lookup is made).
C34_ExpiredOnlyAfterFailedLookup ==
    \A j \in Slots :
        (IsCallback(j) /\ \E i \in 1..Len(jobs[j].out) : IsExpiredNotice(jobs[j].out[i]))
            => /\ jobs[j].looked
               /\ ~jobs[j].found
               /\ jobs[j].runs = 0

\* The answerCallbackQuery calls a handler has made
Acknowledgements(job) == SelectSeq(job.out, LAMBDA c : c.api = "answerCallbackQuery")

\* C36: a callback task that ended has answered the callback query exactly
\* once, with one of the four toasts.
C36_AcknowledgedExactlyOnce ==
    \A j \in Slots :
        (Ended(j) /\ IsCallback(j) /\ jobs[j].entry = "task") =>
            /\ Len(Acknowledgements(jobs[j])) = 1
            /\ Acknowledgements(jobs[j])[1].text \in
                    {TextApproved, TextRejected, TextExpiredToast, TextErrorToast}

\* C32: the message task keeps no record of the updates it has handled: every
\* delivery of a message with a text gets to its engine run, whatever was
\* delivered before; and every delivery whose run pauses and whose save
\* succeeds adds a ledger entry of its own, under an id that was not live.
C32_EachDeliveryRunsAndStores ==
    [][\A j \in Slots :
        /\ (/\ jobs[j].pc = "idle" /\ jobs'[j].pc # "idle"
            /\ jobs'[j].kind \in MessageKinds /\ jobs'[j].text # "")
               => jobs'[j].runs = 1
        /\ (/\ jobs[j].pc = "save" /\ jobs[j].kind \in MessageKinds
            /\ jobs'[j].saved_id # <<>>)
               => /\ ~Live(ledger, jobs'[j].saved_id, now)
                  /\ Live(ledger', jobs'[j].saved_id, now)]_vars

\* C35: in the step in which a callback handler applies its decision, the
\* first interruption is approved exactly when the action of the callback is
\* 'approve'; with any other action it is rejected and the toast the handler
\* goes on to send says so. No handler of another action has sent 'Approved',
\* and the engine has executed a tool call only for callbacks with 'approve'.
C35_OnlyApproveApproves ==
    /\ [][\A j \in Slots :
            (~jobs[j].decided /\ jobs'[j].decided) =>
                /\ (jobs'[j].state.decisions[1] = "approve") <=> (jobs'[j].action = "approve")
                /\ jobs'[j].action # "approve" =>
                        /\ jobs'[j].state.decisions[1] = "reject"
                        /\ jobs'[j].todo = <<AnswerCallbackQuery(TextRejected)>>]_vars
    /\ [](\A j \in Slots : \A i \in 1..Len(jobs[j].out) :
            jobs[j].out[i].text = TextApproved => jobs[j].action = "approve")
    /\ [](\A e \in executed : e.action = "approve")

\* A callback handler has resumed the engine after a callback whose action
\* is neither 'approve' nor 'reject', with the first interruption rejected.
C35_Witness ==
    \E j \in Slots : /\ IsCallback(j) /\ jobs[j].runs = 1 /\ jobs[j].decided
                     /\ jobs[j].action \notin CallbackActions
                     /\ jobs[j].state.decisions[1] = "reject"
                     /\ jobs[j].out[1] = AnswerCallbackQuery(TextRejected)

\* C33: a callback handler resumes the engine from a ledger entry only when
\* the callback comes from the chat the entry was stored for; the session it
\* writes to and the chat it sends the results to are that chat's.
C33_ResumeOnlyInOwningChat ==
    \A j \in Slots :
        (IsCallback(j) /\ jobs[j].found /\ jobs[j].runs > 0)
            => jobs[j].approval_id[2] = ToString(jobs[j].chat)

\* C37: a get, set, delete or exists made while the client is not connected
\* has raised RuntimeError; is_connected is True only when a connect() has
\* returned without raising and no disconnect() has been called since; after
\* a connect() that raised, is_connected is False.
C37_ClientLifecycle ==
    /\ (called.op \in {"get", "set", "delete", "exists"} /\ ~called.was_open)
            => called.raised = "RuntimeError"
    /\ IsConnected => called.opened
    /\ (called.op = "connect" /\ called.raised # "none") => ~IsConnected

\* C31: nothing makes a task wait for another task of its chat: whenever a
\* handler of chat 1 is inside its engine run and the worker has a free slot,
\* the worker can start the message task of another update of chat 1, which
\* gets to its own engine run on the same session.
C31_SameChatTasksNotSerialized ==
    \A j, k \in Slots :
        (/\ jobs[k].pc = "running" /\ jobs[k].chat = 1
         /\ jobs[j].pc = "idle" /\ \A i \in Slots : i < j => jobs[i].pc # "idle"
         /\ delivered < MaxOverlap /\ Quiet)
            => ENABLED (/\ Start(j, MaxOverlap, [entry |-> "task", token |-> NoToken],
                                 [kind |-> "message", chat |-> 1, is_bot |-> FALSE,
                                  text |-> "get weather approval", data |-> <<>>,
                                  photo |-> <<>>, document |-> "", caption |-> ""])
                        /\ jobs'[j].pc = "running"
                        /\ SessionId(jobs'[j].chat) = SessionId(jobs[k].chat))

\* A callback task and a message task of the same chat are both inside their
\* engine run, on the same session.
C31_Witness ==
    \E j, k \in Slots :
        /\ jobs[j].pc = "running" /\ jobs[j].kind = "callback_query" /\ jobs[j].entry = "task"
        /\ jobs[k].pc = "running" /\ jobs[k].kind = "message" /\ jobs[k].entry = "task"
        /\ SessionId(jobs[j].chat) = SessionId(jobs[k].chat)

====
